---- MODULE Spec2Model ----
(***************************************************************************)
(* Model of the Cryptomus client binding (src/src/lib.rs).                 *)
(*                                                                         *)
(* Text that the code base64-encodes or sends as a body is a sequence of   *)
(* bytes (0..255).  Option<T> is a sequence of length 0 (None) or 1        *)
(* (Some).  Result<T, CryptomusError> and a panic are records built by Ok, *)
(* Err and Panic below.  The MD5 digest is an uninterpreted injective      *)
(* function of its input (the md5 crate is an external collaborator).      *)
(***************************************************************************)
EXTENDS Integers, Sequences, FiniteSets, TLC

VARIABLES client, pc, args, wire, reply, outcome, signer

vars == <<client, pc, args, wire, reply, outcome, signer>>

(***************************************************************************)
(* Bounds of the model.                                                    *)
(***************************************************************************)
NumCalls == 2
MaxPayloadLen == 3

Calls == 1..NumCalls

(***************************************************************************)
(* Option, Result, panic.                                                  *)
(***************************************************************************)
None == <<>>
Some(x) == <<x>>
IsNone(o) == Len(o) = 0
IsSome(o) == Len(o) = 1
Unwrap(o) == o[1]

NoValue == [tag |-> "none"]

Ok(v) == [kind |-> "Ok", type |-> "", msg |-> "", value |-> v]
Err(t, m) == [kind |-> "Err", type |-> t, msg |-> m, value |-> NoValue]
\* Box<dyn Error> made from a &str or a String (`"...".into()`).
StringError(m) == Err("StringError", m)
\* Option::unwrap on None: the call unwinds, nothing is returned.
Panic == [kind |-> "Panic", type |-> "unwrap on None", msg |-> "", value |-> NoValue]
NotReturned == [kind |-> "Pending", type |-> "", msg |-> "", value |-> NoValue]

(***************************************************************************)
(* Constants of the source.                                                *)
(***************************************************************************)
CRYPTOMUS_API_BASE_URL == "https://api.cryptomus.com/v1/"
MERCHANT_HEADER == "merchant"
SIGN_HEADER == "sign"
CustomBaseUrl == "http://127.0.0.1:8080/"

\* The literal of lib.rs:305 is Russian ("uuid or order_id must be given");
\* the module is ASCII, so the text is named instead of quoted.
InvalidArgumentText == "lib.rs:305 uuid or order_id must be specified"
MissingApiKeyText == "missing api key"
NoResultText == "dfdf"
\* format!("<prefix>{}", e) of lib.rs:255, also Russian in the source.
BodyUnreadableText == "lib.rs:255 could not read the error response body: reqwest::Error"

(***************************************************************************)
(* base64::engine::general_purpose::STANDARD, on bytes.                    *)
(***************************************************************************)
B64Pad == 61

B64Char(i) ==
    IF i < 26 THEN 65 + i
    ELSE IF i < 52 THEN 97 + (i - 26)
    ELSE IF i < 62 THEN 48 + (i - 52)
    ELSE IF i = 62 THEN 43
    ELSE 47

RECURSIVE Base64Encode(_)
Base64Encode(bytes) ==
    IF Len(bytes) = 0 THEN <<>>
    ELSE IF Len(bytes) = 1 THEN
        << B64Char(bytes[1] \div 4),
           B64Char((bytes[1] % 4) * 16),
           B64Pad, B64Pad >>
    ELSE IF Len(bytes) = 2 THEN
        << B64Char(bytes[1] \div 4),
           B64Char((bytes[1] % 4) * 16 + bytes[2] \div 16),
           B64Char((bytes[2] % 16) * 4),
           B64Pad >>
    ELSE
        << B64Char(bytes[1] \div 4),
           B64Char((bytes[1] % 4) * 16 + bytes[2] \div 16),
           B64Char((bytes[2] % 16) * 4 + bytes[3] \div 64),
           B64Char(bytes[3] % 64) >>
        \o Base64Encode(SubSeq(bytes, 4, Len(bytes)))

\* md5::compute followed by format!("{:x}", digest): 32 lowercase hex
\* characters determined by the input; kept symbolic.
Md5Hex(data) == [md5_hex_of |-> data]


\* generate_signature with the emptiness test widened to the payload.
generate_signature_payload_checked(payload_str, api_key) ==
    IF Len(api_key) = 0 \/ Len(payload_str) = 0
    THEN StringError(MissingApiKeyText)
    ELSE Ok(Md5Hex(Base64Encode(payload_str) \o api_key))

generate_signature(payload_str, api_key) ==
    IF Len(api_key) = 0
    THEN StringError(MissingApiKeyText)
    ELSE LET encoded_payload == Base64Encode(payload_str)
             data_to_sign == encoded_payload \o api_key
         IN  Ok(Md5Hex(data_to_sign))

(***************************************************************************)
(* serde_json::to_string of the request structs.  Members appear in field  *)
(* declaration order; an Option member that is None is skipped             *)
(* (skip_serializing_if = "Option::is_none").  CreateInvoiceRequest keeps  *)
(* its three required members and two of its sixteen optional ones, which  *)
(* all follow the same rule.                                               *)
(***************************************************************************)
EscapeByte(b) ==
    IF b = 34 THEN <<92, 34>>
    ELSE IF b = 92 THEN <<92, 92>>
    ELSE IF b = 10 THEN <<92, 110>>
    ELSE <<b>>

RECURSIVE EscapeBytes(_)
EscapeBytes(s) ==
    IF Len(s) = 0 THEN <<>> ELSE EscapeByte(s[1]) \o EscapeBytes(Tail(s))

JsonString(s) == <<34>> \o EscapeBytes(s) \o <<34>>
JsonBool(b) == IF b THEN <<116, 114, 117, 101>> ELSE <<102, 97, 108, 115, 101>>

RECURSIVE JoinMembers(_)
JoinMembers(ms) ==
    IF Len(ms) = 0 THEN <<>>
    ELSE IF Len(ms) = 1 THEN ms[1]
    ELSE ms[1] \o <<44>> \o JoinMembers(Tail(ms))

JsonObject(ms) == <<123>> \o JoinMembers(ms) \o <<125>>
Member(name, value) == JsonString(name) \o <<58>> \o value
OptionalMember(name, opt, value) ==
    IF IsSome(opt) THEN << Member(name, value) >> ELSE <<>>

N_uuid == <<117, 117, 105, 100>>
N_order_id == <<111, 114, 100, 101, 114, 95, 105, 100>>
N_amount == <<97, 109, 111, 117, 110, 116>>
N_currency == <<99, 117, 114, 114, 101, 110, 99, 121>>
N_network == <<110, 101, 116, 119, 111, 114, 107>>
N_is_refresh == <<105, 115, 95, 114, 101, 102, 114, 101, 115, 104>>

SerializeCreateInvoiceRequest(r) ==
    JsonObject(
        << Member(N_amount, JsonString(r.amount)),
           Member(N_currency, JsonString(r.currency)),
           Member(N_order_id, JsonString(r.order_id)) >>
        \o OptionalMember(N_network, r.network,
                          IF IsSome(r.network) THEN JsonString(Unwrap(r.network)) ELSE <<>>)
        \o OptionalMember(N_is_refresh, r.is_refresh,
                          IF IsSome(r.is_refresh) THEN JsonBool(Unwrap(r.is_refresh)) ELSE <<>>))

SerializeInvoiceInfoRequest(r) ==
    JsonObject(
        OptionalMember(N_uuid, r.uuid,
                       IF IsSome(r.uuid) THEN JsonString(Unwrap(r.uuid)) ELSE <<>>)
        \o OptionalMember(N_order_id, r.order_id,
                          IF IsSome(r.order_id) THEN JsonString(Unwrap(r.order_id)) ELSE <<>>))

\* serde_json::to_string(payload): cannot fail for these structs.
to_string(payload) ==
    IF payload.struct = "CreateInvoiceRequest"
    THEN Ok(SerializeCreateInvoiceRequest(payload))
    ELSE Ok(SerializeInvoiceInfoRequest(payload))

(***************************************************************************)
(* The requests callers pass.                                              *)
(***************************************************************************)
Amount1 == <<49, 48>>
Usd == <<85, 83, 68>>
OrderA == <<111, 49>>
UuidA == <<117, 34>>
Tron == <<116, 114, 111, 110>>

CreateInvoiceRequests ==
    [struct : {"CreateInvoiceRequest"}, amount : {Amount1}, currency : {Usd},
     order_id : {OrderA}, network : {None, Some(Tron)},
     is_refresh : {None, Some(TRUE)}]

InvoiceInfoRequests ==
    [struct : {"InvoiceInfoRequest"}, uuid : {None, Some(UuidA)},
     order_id : {None, Some(OrderA)}]

NoRequest == [struct |-> "none"]
NoArgs == [op |-> "none", request |-> NoRequest]

(***************************************************************************)
(* CryptomusClient: new, set_base_url.                                     *)
(***************************************************************************)
new(merchant_id, api_key) ==
    [merchant_id |-> merchant_id, api_key |-> api_key,
     base_url |-> CRYPTOMUS_API_BASE_URL]

set_base_url(self, base_url) == [self EXCEPT !.base_url = base_url]

MerchantIds == { <<109, 49>>, <<109, 10>> }
ApiKeys == { <<>>, <<107, 49>> }

Clients ==
    { new(m, k) : m \in MerchantIds, k \in ApiKeys }
    \cup { set_base_url(new(m, k), CustomBaseUrl) : m \in MerchantIds, k \in ApiKeys }

(***************************************************************************)
(* send_request, up to `.send().await` (lib.rs:229-247).                   *)
(***************************************************************************)
\* HeaderValue::from_str accepts tab and the bytes 32..255 except 127.
IsValidHeaderValue(bytes) ==
    \A i \in 1..Len(bytes) :
        bytes[i] = 9 \/ (bytes[i] >= 32 /\ bytes[i] # 127)

HttpRequest(url, merchant, sign, body) ==
    [method |-> "POST", url |-> url,
     headers |-> [content_type |-> "application/json",
                  accept |-> "application/json",
                  merchant |-> merchant,
                  sign |-> sign],
     body |-> body]

\* The value of the signature header for the payload string.
SignFor(self, payload_str) == generate_signature(payload_str, self.api_key)


\* BodyFor with the payload written out again with a trailing newline.
BodyFor_rewritten(payload_str) == payload_str \o <<10>>

\* What is handed to the transport as the body.
BodyFor(payload_str) == payload_str


\* PrepareRequest with the headers built before the signature is computed.
PrepareRequest_headers_first(self, endpoint, payload) ==
    LET url == self.base_url \o endpoint
        payload_str == to_string(payload)
        sign == SignFor(self, payload_str.value)
    IN  IF ~IsValidHeaderValue(self.merchant_id)
        THEN [sent |-> FALSE, result |-> Err("InvalidHeaderValue", "")]
        ELSE IF sign.kind = "Err"
        THEN [sent |-> FALSE, result |-> sign]
        ELSE [sent |-> TRUE,
              result |-> Ok(HttpRequest(url, self.merchant_id, sign.value,
                                        BodyFor(payload_str.value)))]

\* Either the early error or the request handed to the transport.
PrepareRequest(self, endpoint, payload) ==
    LET url == self.base_url \o endpoint
        payload_str == to_string(payload)
        sign == SignFor(self, payload_str.value)
    IN  IF sign.kind = "Err"
        THEN [sent |-> FALSE, result |-> sign]
        ELSE IF ~IsValidHeaderValue(self.merchant_id)
        THEN [sent |-> FALSE, result |-> Err("InvalidHeaderValue", "")]
        ELSE [sent |-> TRUE,
              result |-> Ok(HttpRequest(url, self.merchant_id, sign.value,
                                        BodyFor(payload_str.value)))]

(***************************************************************************)
(* What the gateway may answer.  A body is its raw text together with the  *)
(* JSON document the text denotes.  A member of a document is absent       *)
(* (None) or present; JSON null is written out where null and absent are   *)
(* told apart by the deserializer.                                         *)
(***************************************************************************)
JAbsent == [k |-> "absent", s |-> ""]
JNull == [k |-> "null", s |-> ""]
JStr(s) == [k |-> "string", s |-> s]

NoObject == [uuid |-> JAbsent, address |-> JAbsent, payment_status |-> JAbsent]

\* The values of the "result" member.
ResultAbsent == [k |-> "absent", obj |-> NoObject]
ResultNull == [k |-> "null", obj |-> NoObject]
ResultArray == [k |-> "array", obj |-> NoObject]
ResultObject(o) == [k |-> "object", obj |-> o]

InvoiceObjects ==
    { [uuid |-> JStr("inv-1"), address |-> JStr("TXaddr"), payment_status |-> JStr("paid_over")],
      [uuid |-> JStr("inv-2"), address |-> JStr(""), payment_status |-> JStr("new_future_status")],
      [uuid |-> JStr("inv-3"), address |-> JNull, payment_status |-> JStr("paid")],
      [uuid |-> JAbsent, address |-> JNull, payment_status |-> JStr("paid")],
      [uuid |-> JStr("inv-5"), address |-> JAbsent, payment_status |-> JStr("paid")] }

ResultValues ==
    {ResultAbsent, ResultNull, ResultArray} \cup { ResultObject(o) : o \in InvoiceObjects }

StateValues == {0, 1, 2}
Messages == {"Validation failed", "Invoice not found"}
ErrorDetails == {"{\"amount\":[\"required\"]}"}

NotJson == [json |-> FALSE, state |-> None, result |-> ResultAbsent,
            message |-> None, errors |-> None]

JsonDocs ==
    [json : {TRUE},
     state : {None} \cup { Some(n) : n \in StateValues },
     result : ResultValues,
     message : {None} \cup { Some(m) : m \in Messages },
     errors : {None} \cup { Some(e) : e \in ErrorDetails }]

\* The text of a document, as the gateway writes it.
RECURSIVE JoinText(_)
JoinText(ts) ==
    IF Len(ts) = 0 THEN ""
    ELSE IF Len(ts) = 1 THEN ts[1]
    ELSE ts[1] \o "," \o JoinText(Tail(ts))

RenderJStr(v) == IF v.k = "null" THEN "null" ELSE "\"" \o v.s \o "\""

RenderMember(name, v) ==
    IF v.k = "absent" THEN <<>> ELSE << "\"" \o name \o "\":" \o RenderJStr(v) >>

RenderInvoice(o) ==
    "{" \o JoinText(RenderMember("uuid", o.uuid) \o RenderMember("address", o.address)
                    \o RenderMember("payment_status", o.payment_status)) \o "}"

RenderResult(r) ==
    IF r.k = "absent" THEN <<>>
    ELSE IF r.k = "null" THEN << "\"result\":null" >>
    ELSE IF r.k = "array" THEN << "\"result\":[]" >>
    ELSE << "\"result\":" \o RenderInvoice(r.obj) >>

RenderState(s) ==
    IF IsNone(s) THEN <<>>
    ELSE IF Unwrap(s) = 0 THEN << "\"state\":0" >>
    ELSE IF Unwrap(s) = 1 THEN << "\"state\":1" >>
    ELSE << "\"state\":2" >>

RenderDoc(d) ==
    "{" \o JoinText(
               RenderState(d.state) \o RenderResult(d.result)
               \o (IF IsNone(d.message) THEN <<>>
                   ELSE << "\"message\":\"" \o Unwrap(d.message) \o "\"" >>)
               \o (IF IsNone(d.errors) THEN <<>>
                   ELSE << "\"errors\":" \o Unwrap(d.errors) >>))
        \o "}"

PlainTexts == {"", "<html>502 Bad Gateway</html>"}

Bodies ==
    { [text |-> RenderDoc(d), doc |-> d] : d \in JsonDocs }
    \cup { [text |-> t, doc |-> NotJson] : t \in PlainTexts }

StatusCodes == {200, 201, 422, 500}

\* A response: the status line, the body, and whether reading the body
\* (response.text()) succeeds.
Replies == [status : StatusCodes, body : Bodies, readable : BOOLEAN]

NoReply == [status |-> 0, body |-> [text |-> "", doc |-> NotJson], readable |-> FALSE]

(***************************************************************************)
(* Deserialization (serde derive) of the response.                         *)
(***************************************************************************)
\* deserialize_optional_string: null and "" become None.  The field has no
\* #[serde(default)], so an absent member is a missing-field error.
deserialize_optional_string(v) ==
    IF v.k = "absent" THEN Err("serde_json::Error", "")
    ELSE IF v.k = "null" THEN Ok(None)
    ELSE Ok(IF v.s = "" THEN None ELSE Some(v.s))

KnownStatuses ==
    {"paid", "paid_over", "wrong_amount", "process", "confirm_check",
     "wrong_amount_waiting", "check", "fail", "cancel", "system_fail",
     "refund_process", "refund_fail", "refund_paid", "locked"}

\* PaymentStatus: rename_all = "snake_case", #[serde(other)] Unknown.
DeserializePaymentStatus(v) ==
    IF v.k # "string" THEN Err("serde_json::Error", "")
    ELSE Ok(IF v.s \in KnownStatuses THEN v.s ELSE "unknown")

DeserializeInvoiceResponse(o) ==
    LET address == deserialize_optional_string(o.address)
        payment_status == DeserializePaymentStatus(o.payment_status)
    IN  IF o.uuid.k # "string" \/ address.kind = "Err" \/ payment_status.kind = "Err"
        THEN Err("serde_json::Error", "")
        ELSE Ok([uuid |-> o.uuid.s, address |-> address.value,
                 payment_status |-> payment_status.value])

\* Option<R> for the member "result": R is "InvoiceResponse" or "()".
DeserializeResult(R, r) ==
    IF r.k \in {"absent", "null"} THEN Ok(None)
    ELSE IF R = "()" \/ r.k # "object" THEN Err("serde_json::Error", "")
    ELSE LET inv == DeserializeInvoiceResponse(r.obj)
         IN  IF inv.kind = "Err" THEN inv ELSE Ok(Some(inv.value))

\* serde_json::from_str::<GenericCryptomusResponse<R>>(response_text)
from_str(R, response_text) ==
    LET d == response_text.doc
        result == DeserializeResult(R, d.result)
    IN  IF ~d.json \/ IsNone(d.state) \/ result.kind = "Err"
        THEN Err("serde_json::Error", "")
        ELSE Ok([state |-> Unwrap(d.state), result |-> result.value,
                 message |-> d.message, errors |-> d.errors])

(***************************************************************************)
(* send_request, after `.send().await` (lib.rs:249-279).                   *)
(***************************************************************************)
is_success(status) == status >= 200 /\ status <= 299

\* Err(err_resp.message.unwrap().into()) and Err(parsed_response.message.unwrap().into())
ErrorFromMessage(message) ==
    IF IsNone(message) THEN Panic ELSE StringError(Unwrap(message))

ErrorStatusResult(r) ==
    LET response_text == IF r.readable THEN r.body
                         ELSE [text |-> BodyUnreadableText, doc |-> NotJson]
        err_resp == from_str("()", response_text)
    IN  IF err_resp.kind = "Ok"
        THEN ErrorFromMessage(err_resp.value.message)
        ELSE StringError(response_text.text)


\* EnvelopeResult with success taken to mean "state 0 and a result".
EnvelopeResult_needs_result(parsed_response) ==
    IF parsed_response.state = 0 /\ IsSome(parsed_response.result)
    THEN Ok(Unwrap(parsed_response.result))
    ELSE ErrorFromMessage(parsed_response.message)

\* EnvelopeResult with the result looked at before the state.
EnvelopeResult_result_first(parsed_response) ==
    IF IsSome(parsed_response.result)
    THEN Ok(Unwrap(parsed_response.result))
    ELSE IF parsed_response.state = 0
    THEN StringError(NoResultText)
    ELSE ErrorFromMessage(parsed_response.message)

EnvelopeResult(parsed_response) ==
    IF parsed_response.state = 0
    THEN IF IsNone(parsed_response.result)
         THEN StringError(NoResultText)
         ELSE Ok(Unwrap(parsed_response.result))
    ELSE ErrorFromMessage(parsed_response.message)

SuccessStatusResult(r) ==
    IF ~r.readable THEN Err("reqwest::Error", "")
    ELSE LET parsed_response == from_str("InvoiceResponse", r.body)
         IN  IF parsed_response.kind = "Err" THEN parsed_response
             ELSE EnvelopeResult(parsed_response.value)

HandleResponse(r) ==
    IF ~is_success(r.status) THEN ErrorStatusResult(r) ELSE SuccessStatusResult(r)

(***************************************************************************)
(* The replies used where several calls share the client.                  *)
(***************************************************************************)
PaidInvoice ==
    [uuid |-> JStr("inv-1"), address |-> JStr("TXaddr"), payment_status |-> JStr("paid_over")]

DocOf(state, result, message, errors) ==
    [json |-> TRUE, state |-> state, result |-> result, message |-> message,
     errors |-> errors]

BodyOf(d) == [text |-> RenderDoc(d), doc |-> d]

SampleReplies ==
    { [status |-> 200, readable |-> TRUE,
       body |-> BodyOf(DocOf(Some(0), ResultObject(PaidInvoice), None, None))],
      [status |-> 200, readable |-> TRUE,
       body |-> BodyOf(DocOf(Some(1), ResultAbsent, Some("Validation failed"),
                             Some("{\"amount\":[\"required\"]}")))],
      [status |-> 422, readable |-> TRUE,
       body |-> BodyOf(DocOf(Some(1), ResultAbsent, Some("Invoice not found"), None))],
      [status |-> 500, readable |-> TRUE,
       body |-> [text |-> "<html>502 Bad Gateway</html>", doc |-> NotJson]] }

(***************************************************************************)
(* State.                                                                  *)
(*   client   the fields of the shared CryptomusClient                     *)
(*   pc       per call: "idle", "awaiting" (suspended in .send().await),   *)
(*            "done"                                                       *)
(*   args     per call: the operation and the request it was given         *)
(*   wire     per call: the requests the transport was asked to send       *)
(*   reply    per call: the response the transport delivered               *)
(*   outcome  per call: what the call returned                             *)
(*   signer   a direct use of generate_signature: inputs and result        *)
(***************************************************************************)
IdleCalls ==
    /\ pc = [c \in Calls |-> "idle"]
    /\ args = [c \in Calls |-> NoArgs]
    /\ wire = [c \in Calls |-> <<>>]
    /\ reply = [c \in Calls |-> NoReply]
    /\ outcome = [c \in Calls |-> NotReturned]

IdleSigner == [payload_str |-> <<>>, api_key |-> <<>>, result |-> NotReturned]

Init ==
    /\ client \in Clients
    /\ IdleCalls
    /\ signer = IdleSigner

\* The function returns before anything is sent.
ReturnEarly(c, result) ==
    /\ pc' = [pc EXCEPT ![c] = "done"]
    /\ outcome' = [outcome EXCEPT ![c] = result]
    /\ UNCHANGED <<wire, reply>>

\* send_request up to the suspension in `.send().await`.
send_request(c, endpoint, payload) ==
    LET prepared == PrepareRequest(client, endpoint, payload)
    IN  IF ~prepared.sent
        THEN ReturnEarly(c, prepared.result)
        ELSE /\ wire' = [wire EXCEPT ![c] = Append(@, prepared.result.value)]
             /\ pc' = [pc EXCEPT ![c] = "awaiting"]
             /\ UNCHANGED <<reply, outcome>>


\* create_invoice with the URL built in place on the client's base URL.
create_invoice_url_in_place(c, request) ==
    /\ pc[c] = "idle"
    /\ args' = [args EXCEPT ![c] = [op |-> "create_invoice", request |-> request]]
    /\ send_request(c, "payment", request)
    /\ client' = [client EXCEPT !.base_url = @ \o "payment"]
    /\ UNCHANGED signer

create_invoice(c, request) ==
    /\ pc[c] = "idle"
    /\ args' = [args EXCEPT ![c] = [op |-> "create_invoice", request |-> request]]
    /\ send_request(c, "payment", request)
    /\ UNCHANGED <<client, signer>>


\* BothUnset with || in place of &&.
BothUnset_either(request) == IsNone(request.uuid) \/ IsNone(request.order_id)

\* The guard of lib.rs:304.
BothUnset(request) == IsNone(request.uuid) /\ IsNone(request.order_id)

get_invoice_info(c, request) ==
    /\ pc[c] = "idle"
    /\ args' = [args EXCEPT ![c] = [op |-> "get_invoice_info", request |-> request]]
    /\ IF BothUnset(request)
       THEN ReturnEarly(c, StringError(InvalidArgumentText))
       ELSE send_request(c, "payment/info", request)
    /\ UNCHANGED <<client, signer>>


\* SendFails with one more attempt after a transport failure.
SendFails_retry(c) ==
    /\ pc[c] = "awaiting"
    /\ IF Len(wire[c]) < 2
       THEN /\ wire' = [wire EXCEPT ![c] = Append(@, @[1])]
            /\ UNCHANGED <<pc, outcome>>
       ELSE /\ pc' = [pc EXCEPT ![c] = "done"]
            /\ outcome' = [outcome EXCEPT ![c] = Err("reqwest::Error", "")]
            /\ UNCHANGED wire
    /\ UNCHANGED <<client, args, reply, signer>>

\* `.send().await?` fails: connection error or the 30 s timeout.
SendFails(c) ==
    /\ pc[c] = "awaiting"
    /\ pc' = [pc EXCEPT ![c] = "done"]
    /\ outcome' = [outcome EXCEPT ![c] = Err("reqwest::Error", "")]
    /\ UNCHANGED <<client, args, wire, reply, signer>>

\* `.send().await` yields a response; the rest of send_request runs.
Respond(c, r) ==
    /\ pc[c] = "awaiting"
    /\ reply' = [reply EXCEPT ![c] = r]
    /\ outcome' = [outcome EXCEPT ![c] = HandleResponse(r)]
    /\ pc' = [pc EXCEPT ![c] = "done"]
    /\ UNCHANGED <<client, args, wire, signer>>

CreateInvoice == \E c \in Calls, request \in CreateInvoiceRequests : create_invoice(c, request)
GetInvoiceInfo == \E c \in Calls, request \in InvoiceInfoRequests : get_invoice_info(c, request)
TransportError == \E c \in Calls : SendFails(c)
GatewayReplies == \E c \in Calls, r \in SampleReplies : Respond(c, r)

Next == CreateInvoice \/ GetInvoiceInfo \/ TransportError \/ GatewayReplies

Spec == Init /\ [][Next]_vars

(***************************************************************************)
(* One call at a time, against every reply of Replies.                     *)
(***************************************************************************)
CreateInvoiceAlone == \E request \in CreateInvoiceRequests : create_invoice(1, request)
GetInvoiceInfoAlone == \E request \in InvoiceInfoRequests : get_invoice_info(1, request)
TransportErrorAlone == SendFails(1)
AnyReply == \E r \in Replies : Respond(1, r)

EnvelopeNext ==
    CreateInvoiceAlone \/ GetInvoiceInfoAlone \/ TransportErrorAlone \/ AnyReply

EnvelopeSpec == Init /\ [][EnvelopeNext]_vars

(***************************************************************************)
(* generate_signature on its own, for every payload and key.               *)
(***************************************************************************)
PayloadBytes == {0, 34, 255}

RECURSIVE SeqsUpTo(_, _)
SeqsUpTo(S, n) ==
    IF n = 0 THEN { <<>> }
    ELSE LET shorter == SeqsUpTo(S, n - 1)
         IN  shorter \cup { Append(q, x) : q \in shorter, x \in S }

SignPayloads == SeqsUpTo(PayloadBytes, MaxPayloadLen)
SignKeys == { <<>>, <<107>>, <<107, 49>> }

SignInit ==
    /\ client = new(<<109, 49>>, <<107, 49>>)
    /\ IdleCalls
    /\ signer \in [payload_str : SignPayloads, api_key : SignKeys, result : {NotReturned}]

GenerateSignature ==
    /\ signer.result = NotReturned
    /\ signer' = [signer EXCEPT !.result = generate_signature(signer.payload_str, signer.api_key)]
    /\ UNCHANGED <<client, pc, args, wire, reply, outcome>>

SignNext == GenerateSignature

SignSpec == SignInit /\ [][SignNext]_vars

(***************************************************************************)
(* Properties.                                                             *)
(***************************************************************************)
\* The endpoint each operation passes to send_request.
EndpointOf(op) == IF op = "create_invoice" THEN "payment" ELSE "payment/info"

Replied(c) == pc[c] = "done" /\ reply[c] # NoReply

\* The reply to call c parsed as the envelope the call expects.
ParsedReply(c) == from_str("InvoiceResponse", reply[c].body)

\* Call c got a readable 2xx reply whose body parses as an envelope.
GotEnvelope(c) ==
    /\ Replied(c)
    /\ is_success(reply[c].status)
    /\ reply[c].readable
    /\ ParsedReply(c).kind = "Ok"

\* C1: a get_invoice_info call whose request has neither uuid nor order_id
\* returns the invalid-argument error and the transport has recorded no
\* request for it; a call with at least one of the two set does not get
\* that error and goes through send_request: it has either handed exactly
\* its request to the transport or returned send_request's early error.
C1_GuardBeforeNetwork ==
    \A c \in Calls :
        args[c].op = "get_invoice_info" =>
            LET request == args[c].request
                prepared == PrepareRequest(client, "payment/info", request)
            IN  IF IsNone(request.uuid) /\ IsNone(request.order_id)
                THEN /\ pc[c] = "done"
                     /\ outcome[c] = StringError(InvalidArgumentText)
                     /\ wire[c] = <<>>
                     /\ reply[c] = NoReply
                ELSE /\ outcome[c] # StringError(InvalidArgumentText)
                     /\ IF prepared.sent
                        THEN wire[c] = << prepared.result.value >>
                        ELSE wire[c] = <<>> /\ outcome[c] = prepared.result

C1_Witness ==
    \E c, d \in Calls :
        /\ args[c].op = "get_invoice_info" /\ pc[c] = "done"
        /\ IsNone(args[c].request.uuid) /\ IsNone(args[c].request.order_id)
        /\ outcome[c] = StringError(InvalidArgumentText)
        /\ args[d].op = "get_invoice_info" /\ IsSome(args[d].request.uuid)
        /\ Len(wire[d]) = 1

\* C2: every request handed to the transport has as its body the
\* serialization of the call's payload, and its signature header is the
\* signature of that very body under the client's API key.
C2_BodyIsSignedText ==
    \A c \in Calls :
        \A i \in 1..Len(wire[c]) :
            /\ wire[c][i].body = to_string(args[c].request).value
            /\ generate_signature(wire[c][i].body, client.api_key).kind = "Ok"
            /\ wire[c][i].headers.sign
                   = generate_signature(wire[c][i].body, client.api_key).value

C2_Witness ==
    \E c, d \in Calls :
        /\ Len(wire[c]) = 1 /\ args[c].op = "create_invoice"
        /\ Len(wire[d]) = 1 /\ args[d].op = "get_invoice_info"

\* C3: a 2xx reply whose envelope has a nonzero state and no message makes
\* the call return an error value (it does not panic), and that error is
\* not one an ApiError could be: it carries none of the gateway's messages.
C3_MissingMessageIsReturnedError ==
    \A c \in Calls :
        (/\ GotEnvelope(c)
         /\ ParsedReply(c).value.state # 0
         /\ IsNone(ParsedReply(c).value.message))
        => /\ outcome[c].kind = "Err"
           /\ outcome[c].msg \notin Messages

\* C4: on a non-2xx status the call returns an error; when the body parses
\* as an error envelope the error carries the envelope's message and, if
\* present, its validation detail; when the body is not JSON the error
\* carries the raw response text.
C4_ErrorStatusAlwaysFails ==
    \A c \in Calls :
        (Replied(c) /\ ~is_success(reply[c].status))
        => LET envelope == from_str("()", reply[c].body)
           IN  /\ outcome[c].kind = "Err"
               /\ (reply[c].readable /\ envelope.kind = "Ok") =>
                      /\ IsSome(envelope.value.message)
                      /\ outcome[c].msg = Unwrap(envelope.value.message)
                      /\ IsSome(envelope.value.errors) =>
                             outcome[c].value = [errors |-> Unwrap(envelope.value.errors)]
               /\ (reply[c].readable /\ ~reply[c].body.doc.json) =>
                      outcome[c] = StringError(reply[c].body.text)

\* C5: a 2xx reply {"state":0} without a result makes the call return the
\* no-result error, which is neither a parse error nor an error carrying
\* the envelope's message; with state 0 and a result the call returns
\* exactly the deserialized result.
C5_SuccessWithoutResult ==
    \A c \in Calls :
        (/\ Replied(c) /\ is_success(reply[c].status) /\ reply[c].readable
         /\ reply[c].body.doc.json
         /\ reply[c].body.doc.state = Some(0))
        => LET d == reply[c].body.doc
               inv == DeserializeInvoiceResponse(d.result.obj)
           IN  /\ d.result.k \in {"absent", "null"} =>
                      /\ outcome[c] = StringError(NoResultText)
                      /\ outcome[c].type # "serde_json::Error"
                      /\ IsSome(d.message) => outcome[c].msg # Unwrap(d.message)
               /\ (d.result.k = "object" /\ inv.kind = "Ok") =>
                      outcome[c] = Ok(inv.value)

C5_Witness ==
    \E c \in Calls :
        /\ Replied(c) /\ reply[c].status = 200 /\ reply[c].readable
        /\ reply[c].body.doc.json
        /\ reply[c].body.doc.state = Some(0)
        /\ reply[c].body.doc.result.k = "absent"
        /\ IsSome(reply[c].body.doc.message)
        /\ outcome[c] = StringError(NoResultText)

\* C6: a 2xx reply whose envelope has a nonzero state and a message makes
\* the call return an error carrying exactly that message, never a result,
\* also when the envelope carries a result.
C6_ErrorEnvelopeCarriesMessage ==
    \A c \in Calls :
        (/\ GotEnvelope(c)
         /\ ParsedReply(c).value.state # 0
         /\ IsSome(ParsedReply(c).value.message))
        => /\ outcome[c] = StringError(Unwrap(reply[c].body.doc.message))
           /\ outcome[c].kind # "Ok"

C6_Witness ==
    \E c \in Calls :
        /\ GotEnvelope(c)
        /\ ParsedReply(c).value.state = 1
        /\ IsSome(ParsedReply(c).value.result)
        /\ IsSome(reply[c].body.doc.errors)
        /\ outcome[c] = StringError("Validation failed")

\* C7: no call ever has more than one request on the wire: a call that is
\* suspended in the transport has exactly one, and so has a call that
\* finished after a reply or a transport failure, whatever the reply was.
C7_OneAttemptPerCall ==
    \A c \in Calls :
        /\ Len(wire[c]) <= 1
        /\ pc[c] = "awaiting" => Len(wire[c]) = 1
        /\ (pc[c] = "done" /\ (reply[c] # NoReply \/ outcome[c].type = "reqwest::Error"))
               => Len(wire[c]) = 1

C7_Witness ==
    \E c \in Calls :
        /\ pc[c] = "done" /\ Len(wire[c]) = 1
        /\ outcome[c] = Err("reqwest::Error", "") /\ reply[c] = NoReply

\* C8: generate_signature returns the missing-key error exactly when the
\* key is empty, whatever the payload; with a non-empty key it returns a
\* signature, also for the empty payload.
C8_MissingKeyIffEmpty ==
    signer.result # NotReturned =>
        /\ (signer.result = StringError(MissingApiKeyText)) <=> (Len(signer.api_key) = 0)
        /\ Len(signer.api_key) > 0 => signer.result.kind = "Ok"
        /\ signer.result.kind \in {"Ok", "Err"}

C8_Witness ==
    /\ signer.payload_str = <<>> /\ Len(signer.api_key) > 0
    /\ signer.result.kind = "Ok"

\* What call c hands to the transport, from the client's fields and the
\* call's own arguments alone.
OwnRequest(c) ==
    HttpRequest(client.base_url \o EndpointOf(args[c].op), client.merchant_id,
                generate_signature(to_string(args[c].request).value, client.api_key).value,
                to_string(args[c].request).value)

\* C9: no step of any call changes the client's merchant id, API key or
\* base URL; a step of one call leaves the request, reply and result of
\* every other call alone; the request a call sends is determined by the
\* client's fields and that call's payload, and the result of a call that
\* got a reply is determined by that reply.
C9_ClientIsReadOnly ==
    /\ [][client' = client]_vars
    /\ [][\A c \in Calls :
              pc'[c] = pc[c] =>
                  /\ wire'[c] = wire[c] /\ reply'[c] = reply[c]
                  /\ outcome'[c] = outcome[c] /\ args'[c] = args[c]]_vars
    /\ [](\A c \in Calls :
              /\ \A i \in 1..Len(wire[c]) : wire[c][i] = OwnRequest(c)
              /\ Replied(c) => outcome[c] = HandleResponse(reply[c]))

C9_Witness ==
    \E c, d \in Calls :
        /\ c # d
        /\ Replied(c) /\ Replied(d)
        /\ args[c] # args[d] /\ reply[c] # reply[d]
        /\ outcome[c].kind = "Ok" /\ outcome[d].kind = "Err"

\* C10 as stated: with an empty API key every finished call returned the
\* missing-key error and sent nothing.
C10_Original ==
    \A c \in Calls :
        (Len(client.api_key) = 0 /\ pc[c] = "done")
        => /\ outcome[c] = StringError(MissingApiKeyText)
           /\ wire[c] = <<>>

\* C10 amended: with an empty API key no call sends anything and every
\* call finishes at once; a create_invoice call and a get_invoice_info call
\* with uuid or order_id set return the missing-key error, a
\* get_invoice_info call with both unset returns the invalid-argument
\* error of the guard that runs first.
C10_EmptyKeyNeverSends ==
    \A c \in Calls :
        (Len(client.api_key) = 0 /\ pc[c] # "idle")
        => /\ pc[c] = "done"
           /\ wire[c] = <<>>
           /\ reply[c] = NoReply
           /\ outcome[c] =
                  IF /\ args[c].op = "get_invoice_info"
                     /\ IsNone(args[c].request.uuid)
                     /\ IsNone(args[c].request.order_id)
                  THEN StringError(InvalidArgumentText)
                  ELSE StringError(MissingApiKeyText)

C10_Witness ==
    \E c, d \in Calls :
        /\ Len(client.api_key) = 0
        /\ ~IsValidHeaderValue(client.merchant_id)
        /\ args[c].op = "create_invoice" /\ outcome[c] = StringError(MissingApiKeyText)
        /\ args[d].op = "get_invoice_info" /\ outcome[d] = StringError(MissingApiKeyText)

====
